---- MODULE Spec2Model ----
(***************************************************************************)
(* Model of src/app.js: the application state object and its persisted     *)
(* blob, onboarding and weight logging, and the walking tracker (motion    *)
(* step detector, position watch, periodic timer, start/stop).             *)
(*                                                                         *)
(* Units.  Time is in milliseconds, as Date.now().  A calendar day is the  *)
(* UTC day number of the clock, which is what getTodayStr's               *)
(* toISOString().split('T')[0] denotes.  Acceleration is in half m/s^2, so *)
(* that deltas of 0.5, 1.0, 1.5, 2.0 and 2.5 m/s^2 are integers.  Distance *)
(* is in units of 10^-8 km, so that height * 0.415 / 100 / 1000 km is the  *)
(* integer height * 415.  Weights are in hundredths of a kilogram.         *)
(*                                                                         *)
(* The onboarding overlay is taken to be modal: while it is shown the      *)
(* forms and buttons under it receive no input.                            *)
(*                                                                         *)
(* The page holds what renderDashboard, renderProgress and renderWalk last *)
(* computed: the goal progress and estimate, the weight forecast and the   *)
(* walk totals.  Local time is UTC, or UTC until the instant dstStart and  *)
(* an hour ahead of it from then on.                                       *)
(***************************************************************************)
EXTENDS Integers, Sequences, FiniteSets, TLC

VARIABLES
    now,              \* the system clock, Date.now()
    needsPermission,  \* typeof DeviceMotionEvent.requestPermission === 'function'
    hasGeolocation,   \* navigator.geolocation is present
    user,             \* state.user
    weightLogs,       \* state.weightLogs
    dailyWalking,     \* state.dailyWalking, a function from the days that have a record
    stored,           \* localStorage[STORE_KEY]
    walkInterval, lastPosition, totalDistance, totalSteps, startTime, watchId,
    lastAccel, isStepInProgress, lastStepTime,
    startBtnHidden, stopBtnHidden,   \* the 'hidden' class of the two buttons
    motionListening,  \* handleMotion is registered for 'devicemotion'
    timers,           \* ids of the intervals that are set and not cleared
    watches,          \* ids of the position watches that are not cleared
    nextTimerId, nextWatchId,        \* the ids the platform hands out next
    pending,          \* startWalking calls awaiting requestPermission()
    alertMsg,         \* what the last handler reported: its alert(), "error"
                      \* for its console.error(), or "none"
    currentTab,       \* state.currentTab
    initDone,         \* init() ran to its end
    dstStart,         \* the instant local time goes an hour ahead of UTC, or Null
    rendered          \* what the render functions last wrote to the page

vars == <<now, needsPermission, hasGeolocation, user, weightLogs, dailyWalking,
          stored, walkInterval, lastPosition, totalDistance, totalSteps,
          startTime, watchId, lastAccel, isStepInProgress, lastStepTime,
          startBtnHidden, stopBtnHidden, motionListening, timers,
          watches, nextTimerId, nextWatchId, pending, alertMsg, currentTab,
          initDone, dstStart, rendered>>

platformVars == <<needsPermission, hasGeolocation, dstStart>>
stateVars    == <<user, weightLogs, dailyWalking, currentTab>>
detectorVars == <<lastAccel, isStepInProgress, lastStepTime>>
sessionVars  == <<walkInterval, lastPosition, totalDistance, totalSteps,
                  startTime, watchId>>
buttonVars   == <<startBtnHidden, stopBtnHidden>>
subscriptionVars == <<motionListening, timers, watches, nextTimerId, nextWatchId>>
pageVars     == <<initDone, rendered>>

----------------------------------------------------------------------------
(* Bounds of the model *)

MaxStarts  == 2   \* sessions started in one run
MaxPending == 2   \* startWalking calls awaiting the permission response
MaxTicks   == 4   \* the clock runs for MaxTicks * STEP_COOLDOWN ms

----------------------------------------------------------------------------
(* Constants of the program *)

STEP_THRESHOLD  == 2
STEP_COOLDOWN   == 300
DefaultHeight   == 170
AccuracyLimit   == 30
DayMs           == 86400000
HourMs          == 3600000
ForecastWeeks   == 4
Tolerance       == 10
WeekDays        == 7
MonthDays       == 30

Null   == 0 - 1                  \* null, for startTime, walkInterval, watchId
NoUser == [none |-> TRUE]        \* state.user === null
NoBlob == [none |-> TRUE]        \* localStorage has no STORE_KEY
NoPos  == << >>                  \* lastPosition === null
NoRecords == [d \in {} |-> 0]    \* dailyWalking: {}
CorruptBlob == [corrupt |-> TRUE]  \* a stored string that JSON.parse rejects

----------------------------------------------------------------------------
(* Inputs *)

\* accelerationIncludingGravity, <<x, y, z>> in half m/s^2, of magnitudes
\* 10, 11, 13 and 15; << >> is an event that carries no acceleration.
Samples   == { <<0, 6, 8>>, <<2, 6, 9>>, <<3, 4, 12>>, <<2, 10, 11>> }
NoAccel   == << >>
NullAxes  == <<Null, Null, Null>>   \* an event whose x, y and z are null
Heights   == { 0, 180 }          \* parseFloat of the height field; 0 is falsy
Paces     == { "slow", "normal" }
Fixes     == { [latitude |-> la, longitude |-> 0, accuracy |-> a] :
                 la \in {0, 1}, a \in {AccuracyLimit, AccuracyLimit + 1} }
Responses == { "granted", "denied", "prompt", "error" }
Weights   == { 7000, 7030, 8000 }
StartWeights == { 6000, 7000, 9000 }   \* below, at and above a target of 70 kg
LogWeights   == { 6000, 7030, 8000 }   \* below, near and above it
Tabs      == { "dashboard", "log", "progress", "walk" }

\* The clock starts one second before the midnight that ends day 1.
ClockStart == 2 * DayMs - 1000

----------------------------------------------------------------------------
(* Utilities *)

Abs(x) == IF x < 0 THEN 0 - x ELSE x

\* Math.sqrt on the sums of squares the samples produce
Sqrt(n) == CHOOSE r \in 0..n : r * r <= n /\ (r + 1) * (r + 1) > n

\* getTodayStr at clock t
getTodayStr(t) == t \div DayMs

\* JSON.stringify(state)
Serialize(u, wl, dw, tab) ==
    [user |-> u, weightLogs |-> wl, dailyWalking |-> dw, currentTab |-> tab]

\* saveState after the handler's assignments
saveState == stored' = Serialize(user', weightLogs', dailyWalking', currentTab')

\* Local time is UTC until dstStart and an hour ahead of it from then on.
offsetAt(t) == IF dstStart # Null /\ t >= dstStart THEN HourMs ELSE 0

\* the local wall-clock reading of the instant t (getDate and its siblings)
localTime(t) == t + offsetAt(t)

\* the UTC day of the instant that the local date day, at ms milliseconds after
\* its midnight, denotes (the time value setDate computes): an hour before
\* the reading where that is at or after dstStart, the reading itself elsewhere
utcDayOf(day, ms) ==
    LET d == IF ms >= HourMs THEN day ELSE day - 1
        m == IF ms >= HourMs THEN ms - HourMs ELSE ms - HourMs + DayMs
    IN  IF /\ dstStart # Null
           /\ \/ d > dstStart \div DayMs
              \/ d = dstStart \div DayMs /\ m >= dstStart % DayMs
        THEN d
        ELSE day

----------------------------------------------------------------------------
(* Rendering *)

\* the page before any render function has written to it
NotRendered == [none |-> TRUE]
BlankPage   == [goal |-> NotRendered, forecast |-> << >>, stats |-> NotRendered]

\* state.user.pace === 'slow' ? 0.25 : 0.5, in hundredths of a kilogram
pacePerWeek(u) == IF u.pace = "slow" THEN 25 ELSE 50

\* one iteration of the forecast loop without the clamp at the target
projectStepNoClamp(currentProjected, targetWeight, pace) ==
    IF currentProjected > targetWeight
    THEN currentProjected - pace
    ELSE IF currentProjected < targetWeight
         THEN currentProjected + pace
         ELSE currentProjected

\* one iteration of the forecast loop of renderProgress: the next
\* currentProjected
projectStep(currentProjected, targetWeight, pace) ==
    IF currentProjected > targetWeight
    THEN (IF targetWeight > currentProjected - pace
          THEN targetWeight ELSE currentProjected - pace)
    ELSE IF currentProjected < targetWeight
         THEN (IF targetWeight < currentProjected + pace
               THEN targetWeight ELSE currentProjected + pace)
         ELSE currentProjected

\* the values the forecast loop pushes in its last n iterations
RECURSIVE project(_, _, _, _)
project(currentProjected, targetWeight, pace, n) ==
    IF n = 0
    THEN << >>
    ELSE LET next == projectStep(currentProjected, targetWeight, pace)
         IN  <<next>> \o project(next, targetWeight, pace, n - 1)

\* forecastData of renderProgress from the last logged weight on (the nulls
\* before it left out): the last weight, then the projected points
forecastData(u, logs) ==
    IF Len(logs) > 0 /\ u # NoUser
    THEN LET lastWeight == logs[Len(logs)].weight
         IN  <<lastWeight>> \o
             project(lastWeight, u.targetWeight, pacePerWeek(u), ForecastWeeks)
    ELSE << >>

\* the progress of renderGoalSection without the clamp to 0..100
goalProgressUnclamped(initialWeight, target, current) ==
    IF initialWeight # target
    THEN LET totalToChange == Abs(initialWeight - target)
             changed == Abs(initialWeight - current)
         IN  (200 * changed + totalToChange) \div (2 * totalToChange)
    ELSE 0

\* progress of renderGoalSection; Math.round(x) is floor(x + 1/2)
goalProgress(initialWeight, target, current) ==
    IF initialWeight # target
    THEN LET totalToChange == Abs(initialWeight - target)
             changed == Abs(initialWeight - current)
             rounded == (200 * changed + totalToChange) \div (2 * totalToChange)
         IN  IF rounded > 100 THEN 100 ELSE IF rounded < 0 THEN 0 ELSE rounded
    ELSE 0

\* renderGoalSection: the width of the progress bar and the estimated-time
\* text, which names weeksLeft in its first form only
renderGoalSection(u, logs, currentWeightValue) ==
    LET initialWeight == IF Len(logs) > 0 THEN logs[1].weight ELSE u.currentWeight
        target == u.targetWeight
        current == currentWeightValue
        diff == Abs(current - target)
        weeklyRate == pacePerWeek(u)
        weeksLeft == (diff + weeklyRate - 1) \div weeklyRate
    IN  [progress |-> goalProgress(initialWeight, target, current),
         estimate |-> IF current > target + Tolerance
                      THEN "weeks"
                      ELSE IF current < target - Tolerance
                           THEN "maintain"
                           ELSE "reached",
         weeks    |-> IF current > target + Tolerance THEN weeksLeft ELSE 0]

\* renderDashboard: the page after it
renderDashboard(page, u, logs) ==
    IF u = NoUser
    THEN page
    ELSE LET currentWeightValue ==
                 IF Len(logs) > 0 THEN logs[Len(logs)].weight ELSE u.currentWeight
         IN  [page EXCEPT !.goal = renderGoalSection(u, logs, currentWeightValue)]

\* renderProgress: the page after it
renderProgress(page, u, logs) == [page EXCEPT !.forecast = forecastData(u, logs)]

\* the day string of the i-th iteration of getStatsForRange at the instant t:
\* d = new Date(now); d.setDate(d.getDate() - i) moves the local date;
\* toISOString().split('T')[0] is the UTC day of the result
rangeDay(t, i) == utcDayOf(localTime(t) \div DayMs - i, localTime(t) % DayMs)

\* getStatsForRange(days) of renderWalk at the instant t
RECURSIVE getStatsForRange(_, _, _)
getStatsForRange(dw, t, days) ==
    IF days = 0
    THEN 0
    ELSE LET dStr == rangeDay(t, days - 1)
         IN  getStatsForRange(dw, t, days - 1) +
             (IF dStr \in DOMAIN dw THEN dw[dStr].distance ELSE 0)

\* renderWalk: the page after it (the forecast chart of the walk tab is drawn
\* with random jitter and is left out)
renderWalk(page, dw, t) ==
    LET today == getTodayStr(t)
    IN  [page EXCEPT !.stats =
           [today |-> IF today \in DOMAIN dw THEN dw[today].distance ELSE 0,
            week  |-> getStatsForRange(dw, t, WeekDays),
            month |-> getStatsForRange(dw, t, MonthDays)]]

\* renderTab: the page after it (renderLog writes the list of the logs, which
\* the page of the model does not hold)
renderTab(tabId, page, u, logs, dw, t) ==
    CASE tabId = "dashboard" -> renderDashboard(page, u, logs)
      [] tabId = "log"       -> page
      [] tabId = "progress"  -> renderProgress(page, u, logs)
      [] tabId = "walk"      -> renderWalk(page, dw, t)

----------------------------------------------------------------------------
(* Initial state: the module's top-level declarations, then init() *)

\* A blob saved by an earlier run of the same day: a profile, its first weight
\* log and a walk.
SavedBlob ==
    Serialize([height |-> 180, currentWeight |-> 8000, targetWeight |-> 7000,
               pace |-> "normal"],
              << [date |-> 1, weight |-> 8000] >>,
              [d \in {1} |-> [distance |-> 74700, time |-> 60]],
              "dashboard")

InitialBlobs == { NoBlob, SavedBlob }

\* whether JSON.parse accepts the blob
parses(blob) == blob # CorruptBlob

\* loadState: the stored blob replaces the default state when there is one;
\* on a blob that JSON.parse rejects it throws and the default state stays
loadState(blob) ==
    IF blob # NoBlob /\ parses(blob)
    THEN /\ user = blob.user
         /\ weightLogs = blob.weightLogs
         /\ dailyWalking = blob.dailyWalking
         /\ currentTab = blob.currentTab
    ELSE /\ user = NoUser
         /\ weightLogs = << >>
         /\ dailyWalking = NoRecords
         /\ currentTab = "dashboard"

\* The page is loaded with one of the blobs in the store, in one of the time
\* zones: the top-level declarations run, then init(), which the exception of
\* loadState ends before anything is shown.
Load(blobs, zones) ==
    /\ now = ClockStart
    /\ needsPermission \in BOOLEAN
    /\ hasGeolocation \in BOOLEAN
    /\ dstStart \in zones
    /\ stored \in blobs
    /\ loadState(stored)
    /\ initDone = parses(stored)
    /\ rendered = IF initDone THEN renderDashboard(BlankPage, user, weightLogs)
                              ELSE BlankPage
    /\ walkInterval = Null
    /\ lastPosition = NoPos
    /\ totalDistance = 0
    /\ totalSteps = 0
    /\ startTime = Null
    /\ watchId = Null
    /\ lastAccel = 0
    /\ isStepInProgress = FALSE
    /\ lastStepTime = 0
    /\ startBtnHidden = FALSE
    /\ stopBtnHidden = TRUE
    /\ motionListening = FALSE
    /\ timers = {}
    /\ watches = {}
    /\ nextTimerId = 1
    /\ nextWatchId = 1
    /\ pending = 0
    /\ alertMsg = "none"

Init == Load(InitialBlobs, {Null})

----------------------------------------------------------------------------
(* The clock *)

Advance(d) ==
    /\ now + d <= ClockStart + MaxTicks * STEP_COOLDOWN
    /\ now' = now + d
    /\ UNCHANGED <<platformVars, pageVars, stateVars, stored, sessionVars, detectorVars,
                   buttonVars, subscriptionVars, pending, alertMsg>>

----------------------------------------------------------------------------
(* Onboarding and weight logging *)

\* the 'hidden' class of the onboarding overlay: init() removes it when there
\* is no profile, the submit handler puts it back
onboardingHidden == ~initDone \/ user # NoUser

\* onboardingForm submit handler
OnboardingSubmit(h, w, t, p) ==
    /\ ~onboardingHidden
    /\ user' = [height |-> h, currentWeight |-> w, targetWeight |-> t, pace |-> p]
    /\ weightLogs' = Append(weightLogs, [date |-> getTodayStr(now), weight |-> w])
    /\ UNCHANGED <<dailyWalking, currentTab>>
    /\ saveState
    /\ rendered' = renderDashboard(rendered, user', weightLogs')
    /\ alertMsg' = "none"
    /\ UNCHANGED <<now, platformVars, initDone, sessionVars, detectorVars,
                   buttonVars, subscriptionVars, pending>>

\* findIndex with a test that matches no entry
findIndexNoMatch(logs, today) == 0 - 1

\* Array.prototype.findIndex(l => l.date === today): first match, or -1
findIndex(logs, today) ==
    IF \E i \in 1..Len(logs) : logs[i].date = today
    THEN CHOOSE i \in 1..Len(logs) :
            /\ logs[i].date = today
            /\ \A j \in 1..(i - 1) : logs[j].date # today
    ELSE 0 - 1

\* weight-log-form submit handler (indices are 1-based here); the form is on
\* the log tab, which the tab listeners of init() lead to
WeightLogSubmit(weight) ==
    /\ initDone
    /\ onboardingHidden
    /\ LET today == getTodayStr(now)
           existingIndex == findIndex(weightLogs, today)
       IN  weightLogs' =
             IF existingIndex > 0 - 1
             THEN [weightLogs EXCEPT ![existingIndex].weight = weight]
             ELSE Append(weightLogs, [date |-> today, weight |-> weight])
    /\ UNCHANGED <<user, dailyWalking, currentTab>>
    /\ saveState
    /\ alertMsg' = "logged"
    /\ UNCHANGED <<now, platformVars, pageVars, sessionVars, detectorVars,
                   buttonVars, subscriptionVars, pending>>

\* click on a tab button: switchTab(btn.dataset.tab)
switchTab(tabId) ==
    /\ initDone
    /\ onboardingHidden
    /\ currentTab' = tabId
    /\ rendered' = renderTab(tabId, rendered, user, weightLogs, dailyWalking, now)
    /\ alertMsg' = "none"
    /\ UNCHANGED <<now, platformVars, initDone, user, weightLogs, dailyWalking,
                   stored, sessionVars, detectorVars, buttonVars,
                   subscriptionVars, pending>>

----------------------------------------------------------------------------
(* Walking tracker *)

\* the number an axis value is taken for by **: null is 0 (the axes of the
\* samples are not negative, and Null stands for a null axis)
ToNumber(v) == IF v = Null THEN 0 ELSE v

\* Math.sqrt(accel.x ** 2 + accel.y ** 2 + accel.z ** 2)
Magnitude(accel) ==
    Sqrt(ToNumber(accel[1]) * ToNumber(accel[1]) +
         ToNumber(accel[2]) * ToNumber(accel[2]) +
         ToNumber(accel[3]) * ToNumber(accel[3]))

\* the stride without the fallback for a falsy height
strideLengthNoFallback ==
    (IF user # NoUser THEN user.height ELSE DefaultHeight) * 415

\* (state.user?.height || 170) * 0.415 / 100 / 1000 km, in 10^-8 km
strideLength ==
    (IF user # NoUser /\ user.height # 0 THEN user.height ELSE DefaultHeight) * 415

\* the step condition with the cooldown met at exactly STEP_COOLDOWN
stepFiresAtCooldown(delta) ==
    /\ delta > 2 * STEP_THRESHOLD
    /\ ~isStepInProgress
    /\ (now - lastStepTime) >= STEP_COOLDOWN

\* the step condition of handleMotion; delta is in half m/s^2
stepFires(delta) ==
    /\ delta > 2 * STEP_THRESHOLD
    /\ ~isStepInProgress
    /\ (now - lastStepTime) > STEP_COOLDOWN

\* the hysteresis condition of handleMotion: delta < STEP_THRESHOLD / 2
stepClears(delta) == delta < STEP_THRESHOLD

\* handleMotion, the 'devicemotion' listener (its updateWalkUI writes the
\* texts of the walk display and nothing else)
handleMotion(accel) ==
    /\ motionListening
    /\ IF accel = NoAccel
       THEN UNCHANGED <<detectorVars, totalSteps, totalDistance>>
       ELSE LET magnitude == Magnitude(accel)
                delta == Abs(magnitude - lastAccel)
            IN  /\ lastAccel' = magnitude
                /\ IF stepFires(delta)
                   THEN /\ totalSteps' = totalSteps + 1
                        /\ isStepInProgress' = TRUE
                        /\ lastStepTime' = now
                        /\ totalDistance' = totalDistance + strideLength
                   ELSE /\ isStepInProgress' =
                              IF stepClears(delta) THEN FALSE ELSE isStepInProgress
                        /\ UNCHANGED <<totalSteps, lastStepTime, totalDistance>>
    /\ alertMsg' = "none"
    /\ UNCHANGED <<now, platformVars, pageVars, stateVars, stored, walkInterval, lastPosition,
                   startTime, watchId, buttonVars, subscriptionVars, pending>>

\* the body of startWalking after the permission request (lines 381-410)
startSession ==
    /\ nextTimerId <= MaxStarts
    /\ totalDistance' = 0
    /\ totalSteps' = 0
    /\ startTime' = now
    /\ lastPosition' = NoPos
    /\ startBtnHidden' = TRUE
    /\ stopBtnHidden' = FALSE
    /\ motionListening' = TRUE
    /\ IF hasGeolocation
       THEN /\ watchId' = nextWatchId
            /\ watches' = watches \cup {nextWatchId}
            /\ nextWatchId' = nextWatchId + 1
       ELSE UNCHANGED <<watchId, watches, nextWatchId>>
    /\ walkInterval' = nextTimerId
    /\ timers' = timers \cup {nextTimerId}
    /\ nextTimerId' = nextTimerId + 1

\* click on start-walk: startWalking up to its await, or to its end
startWalking ==
    /\ onboardingHidden
    /\ ~startBtnHidden
    /\ IF needsPermission
       THEN /\ pending < MaxPending
            /\ pending' = pending + 1
            /\ UNCHANGED <<sessionVars, buttonVars, subscriptionVars>>
       ELSE /\ startSession
            /\ UNCHANGED pending
    /\ alertMsg' = "none"
    /\ UNCHANGED <<now, platformVars, pageVars, stateVars, stored, detectorVars>>

\* the test of line 372 aborting on "denied" only
permissionRefusedDeniedOnly(permissionState) == permissionState = "denied"

\* the test of line 372 on the value requestPermission() resolved with
permissionRefused(permissionState) == permissionState # "granted"

\* requestPermission() settles and startWalking resumes after its await: the
\* promise resolves with "granted" or "denied", or rejects ("error"), which
\* the catch of line 376 logs before the function goes on
permissionResponse(r) ==
    /\ pending > 0
    /\ pending' = pending - 1
    /\ IF r # "error" /\ permissionRefused(r)
       THEN /\ alertMsg' = "permission"
            /\ UNCHANGED <<sessionVars, buttonVars, subscriptionVars>>
       ELSE /\ startSession
            /\ alertMsg' = IF r = "error" THEN "error" ELSE "none"
    /\ UNCHANGED <<now, platformVars, pageVars, stateVars, stored, detectorVars>>

\* the test of line 395 discarding a fix of exactly the limit too
inaccurateAtLimit(accuracy) == accuracy >= AccuracyLimit

\* a position callback that adds a distance from the last position to the
\* session total
positionCallbackAddsDistance(id, pos) ==
    /\ id \in watches
    /\ ~(pos.accuracy > AccuracyLimit)
    /\ lastPosition' = <<pos.latitude, pos.longitude>>
    /\ totalDistance' =
         IF lastPosition # NoPos
         THEN totalDistance + Abs(pos.latitude - lastPosition[1]) * 11100000
         ELSE totalDistance
    /\ UNCHANGED <<now, platformVars, pageVars, stateVars, stored, walkInterval,
                   totalSteps, startTime, watchId, detectorVars, buttonVars,
                   subscriptionVars, pending>>
    /\ alertMsg' = "none"

\* the test of line 395 on a fix's accuracy
inaccurate(accuracy) == accuracy > AccuracyLimit

\* the watchPosition success callback of the watch id.  calculateDistance is
\* called on the last and the new position and its result d is compared with
\* 0.005 in an if with an empty body: nothing is done with it.
positionCallback(id, pos) ==
    /\ id \in watches
    /\ lastPosition' =
         IF inaccurate(pos.accuracy)
         THEN lastPosition
         ELSE <<pos.latitude, pos.longitude>>
    /\ UNCHANGED <<now, platformVars, pageVars, stateVars, stored, walkInterval, totalDistance,
                   totalSteps, startTime, watchId, detectorVars, buttonVars,
                   subscriptionVars, pending>>
    /\ alertMsg' = "none"

\* state.dailyWalking after a merge that overwrites today's record
mergeWalkOverwrite(dw, today, distance, elapsedSeconds) ==
    [d \in DOMAIN dw \cup {today} |->
       IF d = today
       THEN [distance |-> distance, time |-> elapsedSeconds]
       ELSE dw[d]]

\* state.dailyWalking after stopWalking's merge of the session into today
mergeWalk(dw, today, distance, elapsedSeconds) ==
    LET old == IF today \in DOMAIN dw THEN dw[today] ELSE [distance |-> 0, time |-> 0]
    IN  [d \in DOMAIN dw \cup {today} |->
           IF d = today
           THEN [distance |-> old.distance + distance, time |-> old.time + elapsedSeconds]
           ELSE dw[d]]

\* a timer callback that also saves the running session into today's record
timerTickAutosave(id) ==
    /\ id \in timers
    /\ dailyWalking' = mergeWalk(dailyWalking, getTodayStr(now), totalDistance,
                                 (now - startTime) \div 1000)
    /\ UNCHANGED <<user, weightLogs, currentTab>>
    /\ saveState
    /\ alertMsg' = "none"
    /\ UNCHANGED <<now, platformVars, pageVars, sessionVars, detectorVars,
                   buttonVars, subscriptionVars, pending>>

\* the setInterval callback of the timer id: updateWalkUI, which writes the
\* texts of the walk display and nothing else
timerTick(id) ==
    /\ id \in timers
    /\ alertMsg' = "none"
    /\ UNCHANGED <<now, platformVars, pageVars, stateVars, stored, sessionVars, detectorVars,
                   buttonVars, subscriptionVars, pending>>

\* click on stop-walk
stopWalking ==
    /\ ~stopBtnHidden
    /\ timers' = timers \ {walkInterval}
    /\ motionListening' = FALSE
    /\ watches' = IF watchId # Null THEN watches \ {watchId} ELSE watches
    /\ LET elapsedSeconds == (now - startTime) \div 1000
           today == getTodayStr(now)
       IN  dailyWalking' = mergeWalk(dailyWalking, today, totalDistance, elapsedSeconds)
    /\ UNCHANGED <<user, weightLogs, currentTab>>
    /\ saveState
    /\ startBtnHidden' = FALSE
    /\ stopBtnHidden' = TRUE
    /\ alertMsg' = "saved"
    /\ rendered' = renderWalk(rendered, dailyWalking', now)
    /\ UNCHANGED <<now, platformVars, initDone, sessionVars, detectorVars,
                   nextTimerId, nextWatchId, pending>>

\* click on confirm-reset-btn: the blob is removed and the page reloads, which
\* runs the top-level declarations and init() again
confirmReset ==
    /\ initDone
    /\ onboardingHidden
    /\ stored' = NoBlob
    /\ user' = NoUser
    /\ weightLogs' = << >>
    /\ dailyWalking' = NoRecords
    /\ currentTab' = "dashboard"
    /\ initDone' = TRUE
    /\ rendered' = BlankPage
    /\ walkInterval' = Null
    /\ lastPosition' = NoPos
    /\ totalDistance' = 0
    /\ totalSteps' = 0
    /\ startTime' = Null
    /\ watchId' = Null
    /\ lastAccel' = 0
    /\ isStepInProgress' = FALSE
    /\ lastStepTime' = 0
    /\ startBtnHidden' = FALSE
    /\ stopBtnHidden' = TRUE
    /\ motionListening' = FALSE
    /\ timers' = {}
    /\ watches' = {}
    /\ nextTimerId' = 1
    /\ nextWatchId' = 1
    /\ pending' = 0
    /\ alertMsg' = "none"
    /\ UNCHANGED <<now, platformVars>>

----------------------------------------------------------------------------
(* Specifications *)

\* One step of the program on inputs drawn from the given sets
Step(advances, heights, samples, fixes) ==
    \/ \E d \in advances : Advance(d)
    \/ \E h \in heights : OnboardingSubmit(h, 8000, 7000, "normal")
    \/ startWalking
    \/ \E r \in Responses : permissionResponse(r)
    \/ \E a \in samples : handleMotion(a)
    \/ \E id \in watches, pos \in fixes : positionCallback(id, pos)
    \/ \E id \in timers : timerTick(id)
    \/ stopWalking

\* The session life cycle on every platform, with half seconds on the clock and
\* two magnitudes of acceleration.
Next == Step({500}, {180}, {<<0, 6, 8>>, <<2, 10, 11>>, NoAccel}, Fixes)

Spec == Init /\ [][Next]_vars

\* The step detector on a platform that asks no permission and has no
\* positioning, with the cooldown on the clock and every magnitude.
InitStep == Init /\ ~needsPermission /\ ~hasGeolocation

NextStep ==
    \/ \E d \in {STEP_COOLDOWN, 1000} : Advance(d)
    \/ \E h \in Heights : OnboardingSubmit(h, 8000, 7000, "normal")
    \/ startWalking
    \/ \E a \in Samples \cup {NoAccel} : handleMotion(a)
    \/ \E id \in timers : timerTick(id)
    \/ stopWalking

SpecStep == InitStep /\ [][NextStep]_vars

\* The profile and the weight log, on a platform that asks no permission and
\* has no positioning.
NextLog ==
    \/ Advance(500)
    \/ \E w \in Weights, p \in Paces : OnboardingSubmit(180, w, 7000, p)
    \/ \E w \in Weights : WeightLogSubmit(w)
    \/ confirmReset

SpecLog == InitStep /\ [][NextLog]_vars

\* The motion listener on events with a sample, without one, and with a sample
\* of null axes.
NextMotion ==
    \/ Advance(500)
    \/ OnboardingSubmit(180, 8000, 7000, "normal")
    \/ startWalking
    \/ \E a \in {<<0, 6, 8>>, NoAccel, NullAxes} : handleMotion(a)
    \/ stopWalking

SpecMotion == InitStep /\ [][NextMotion]_vars

\* The device at rest: every motion event carries the same sample, of
\* magnitude 5 m/s^2, at any number and timing of the events.
NextRest ==
    \/ \E d \in {STEP_COOLDOWN, 1000} : Advance(d)
    \/ \E h \in Heights : OnboardingSubmit(h, 8000, 7000, "normal")
    \/ startWalking
    \/ handleMotion(<<0, 6, 8>>)
    \/ \E id \in timers : timerTick(id)
    \/ stopWalking

SpecRest == InitStep /\ [][NextRest]_vars

\* The dashboard and the progress tab over profiles that are to lose, to gain
\* or to keep weight, loaded from no blob, a saved blob or a corrupt one.
InitView ==
    Load(InitialBlobs \cup {CorruptBlob}, {Null}) /\ ~needsPermission /\ ~hasGeolocation

NextView ==
    \/ Advance(1000)
    \/ \E w \in StartWeights, p \in Paces : OnboardingSubmit(180, w, 7000, p)
    \/ \E w \in LogWeights : WeightLogSubmit(w)
    \/ \E tab \in Tabs : switchTab(tab)
    \/ confirmReset

SpecView == InitView /\ [][NextView]_vars

\* The statistics of the walk tab over stored walking records of the days
\* RecordDays, in a zone without a clock change and in one whose clocks went
\* forward at 01:00 UTC of day -1.
RecordDays == { 1, 0 - 1, 0 - 5, 0 - 6, 0 - 28, 0 - 29 }

\* a distance for each of the days, all sums of which differ
StoredDistance(d) ==
    CASE d = 1      -> 1
      [] d = 0 - 1  -> 2
      [] d = 0 - 5  -> 4
      [] d = 0 - 6  -> 8
      [] d = 0 - 28 -> 16
      [] d = 0 - 29 -> 32

HistoryBlobs ==
    { Serialize(SavedBlob.user, SavedBlob.weightLogs,
                [d \in days |-> [distance |-> StoredDistance(d), time |-> 60]],
                "walk") : days \in SUBSET RecordDays }

Zones == { Null, HourMs - DayMs }

InitStats == Load(HistoryBlobs, Zones) /\ ~needsPermission /\ ~hasGeolocation

NextStats ==
    \/ Advance(500)
    \/ \E tab \in Tabs : switchTab(tab)

SpecStats == InitStats /\ [][NextStats]_vars

----------------------------------------------------------------------------
(* Properties *)

Running == startBtnHidden     \* between a start and the stop that follows it
Idle    == stopBtnHidden

\* C1: on every motion sample that carries data, totalSteps goes up by one
\* exactly when delta = |magnitude - previous magnitude| exceeds 2.0 m/s^2
\* (4 half m/s^2), no step is in progress and more than 300 ms have passed
\* since the last detected step, and by nothing otherwise; the in-progress
\* flag is set on firing, cleared by a sample with delta below 1.0 m/s^2
\* (2 half m/s^2) and by nothing else; the previous magnitude becomes the
\* sample's magnitude; and no other step of the program raises totalSteps.
C1_StepDetection ==
    [][ /\ \A a \in Samples : handleMotion(a) =>
             LET magnitude == Magnitude(a)
                 delta == Abs(magnitude - lastAccel)
                 fires == delta > 4 /\ ~isStepInProgress /\ now - lastStepTime > 300
             IN  /\ totalSteps' = totalSteps + (IF fires THEN 1 ELSE 0)
                 /\ isStepInProgress' = (fires \/ (isStepInProgress /\ delta >= 2))
                 /\ lastAccel' = magnitude
        /\ totalSteps' > totalSteps => \E a \in Samples : handleMotion(a)
        /\ (isStepInProgress /\ ~isStepInProgress') =>
             \E a \in Samples : handleMotion(a) /\ Abs(Magnitude(a) - lastAccel) < 2
      ]_vars

\* Two steps were detected, the flag was cleared again, and the clock stands
\* exactly one cooldown after the last step.
C1_Witness ==
    /\ motionListening
    /\ totalSteps = 2
    /\ ~isStepInProgress
    /\ now - lastStepTime = STEP_COOLDOWN

\* C2: a stop adds the session's distance and its elapsed whole seconds to the
\* record of the current day, taken as zeros when the day has none, and leaves
\* the records of all other days as they were; and only a stop changes the
\* records, so a day's record is the sum over the sessions stopped on it.
C2_StopAccumulates ==
    [][ /\ (~stopBtnHidden /\ stopBtnHidden') =>
             LET today == now \div 86400000
                 old == IF today \in DOMAIN dailyWalking
                        THEN dailyWalking[today]
                        ELSE [distance |-> 0, time |-> 0]
             IN  /\ DOMAIN dailyWalking' = DOMAIN dailyWalking \cup {today}
                 /\ dailyWalking'[today].distance = old.distance + totalDistance
                 /\ dailyWalking'[today].time = old.time + (now - startTime) \div 1000
                 /\ \A d \in DOMAIN dailyWalking \ {today} :
                        dailyWalking'[d] = dailyWalking[d]
        /\ dailyWalking' # dailyWalking => (~stopBtnHidden /\ stopBtnHidden')
      ]_vars

\* Two sessions of one step each were stopped on the day of the saved walk:
\* its record holds the three distances.
C2_Witness ==
    /\ Idle
    /\ nextTimerId = 3
    /\ stored = Serialize(user, weightLogs, dailyWalking, currentTab)
    /\ \E d \in DOMAIN dailyWalking :
          dailyWalking[d] = [distance |-> 3 * 74700, time |-> 60]

\* C3: once stopWalking has returned and until the next start, no motion
\* listener, position watch or periodic timer is subscribed.
C3_NothingSubscribedWhenIdle ==
    Idle => (~motionListening /\ timers = {} /\ watches = {})

\* C4: while a session is Running no start takes effect: the start time and
\* the last-known position are not reset, the totals do not go down, and no
\* timer or position watch is registered.
C4_StartOnlyFromIdle ==
    [][ Running =>
          /\ nextTimerId' = nextTimerId
          /\ nextWatchId' = nextWatchId
          /\ startTime' = startTime
          /\ totalSteps' >= totalSteps
          /\ totalDistance' >= totalDistance
      ]_vars

\* C5: a permission request that resolves with anything other than "granted"
\* aborts the start: the session state, the totals, the start time, the
\* last-known position, the detector and every subscription are as before the
\* response, nothing is saved, and the user is alerted.
C5_DeniedStartAborts ==
    [][ \A r \in Responses \ {"granted", "error"} :
          permissionResponse(r) =>
            /\ UNCHANGED <<sessionVars, detectorVars, buttonVars, subscriptionVars,
                           stateVars, stored>>
            /\ alertMsg' = "permission"
      ]_vars

\* A refusal has just been reported and no session was ever started.
C5_Witness ==
    /\ needsPermission
    /\ alertMsg = "permission"
    /\ Idle
    /\ startTime = Null
    /\ nextTimerId = 1

C7_AccuracyFilter ==
    [][ Running =>
          \A id \in watches, pos \in Fixes :
            positionCallback(id, pos) =>
              lastPosition' = IF pos.accuracy > 30
                              THEN lastPosition
                              ELSE <<pos.latitude, pos.longitude>>
      ]_vars

\* A fix was accepted in a running session.
C7_Witness ==
    /\ Running
    /\ watches # {}
    /\ lastPosition = <<0, 0>>

\* C8: from a start to the stop that follows it, no step of the program changes
\* state.dailyWalking or the persisted blob.
C8_NoPartialPersistence ==
    [][ (Running /\ Running') => (dailyWalking' = dailyWalking /\ stored' = stored) ]_vars

\* A running session has counted a step and accepted a fix, and the blob is
\* still the one loaded at startup.
C8_Witness ==
    /\ Running
    /\ totalDistance > 0
    /\ lastPosition # NoPos
    /\ timers # {}
    /\ stored = SavedBlob

\* C9: the session distance is the session step count times the stride,
\* height * 0.415 / 100 / 1000 km with 170 cm for an unknown height.
C9_DistanceIsStepsTimesStride ==
    totalDistance =
      totalSteps * (IF user = NoUser \/ user.height = 0 THEN 170 ELSE user.height) * 415

\* Three steps at height 180 cm (3 x 0.000747 km), and steps at an unknown height
C9_Witness ==
    \/ /\ user # NoUser /\ user.height = 180
       /\ totalSteps = 3
       /\ totalDistance = 3 * 74700
    \/ /\ user # NoUser /\ user.height = 0
       /\ totalSteps = 2

\* C10: the weight log never holds two entries of the same day, and a weight
\* logged on a day that has an entry replaces that entry's weight and leaves
\* the number of entries as it was.
C10_OneEntryPerDay ==
    [][ /\ \A i, j \in 1..Len(weightLogs') :
             weightLogs'[i].date = weightLogs'[j].date => i = j
        /\ \A w \in Weights :
             (WeightLogSubmit(w)
                /\ \E i \in 1..Len(weightLogs) : weightLogs[i].date = now \div 86400000) =>
               /\ Len(weightLogs') = Len(weightLogs)
               /\ \A i \in 1..Len(weightLogs) :
                    /\ weightLogs'[i].date = weightLogs[i].date
                    /\ weightLogs'[i].weight =
                         IF weightLogs[i].date = now \div 86400000
                         THEN w
                         ELSE weightLogs[i].weight
      ]_vars

\* The log holds an entry of each of two days, and the first day's entry has
\* been overwritten with another weight than the onboarding weight.
C10_Witness ==
    /\ Len(weightLogs) = 2
    /\ user # NoUser
    /\ weightLogs[1].weight # user.currentWeight
    /\ weightLogs[1].date # weightLogs[2].date

\* a handler that ends in renderDashboard has run
DashboardRendered ==
    \/ switchTab("dashboard")
    \/ \E w \in StartWeights, p \in Paces : OnboardingSubmit(180, w, 7000, p)

\* C11: the forecast drawn on the progress tab is the last logged weight and
\* exactly 4 projected points; each point is the previous one moved toward the
\* target by the weekly pace (0.25 kg for slow, 0.5 kg otherwise), or the
\* target itself when less than the pace remains, and no point lies on the
\* other side of the target from the last logged weight.
C11_WeightForecast ==
    [][switchTab("progress") =>
         LET f == rendered'.forecast
             last == weightLogs[Len(weightLogs)].weight
             target == user.targetWeight
             pace == IF user.pace = "slow" THEN 25 ELSE 50
         IN  /\ Len(f) = 5
             /\ f[1] = last
             /\ \A i \in 1..4 :
                  /\ IF Abs(f[i] - target) < pace
                     THEN f[i + 1] = target
                     ELSE /\ Abs(f[i + 1] - f[i]) = pace
                          /\ Abs(f[i + 1] - target) = Abs(f[i] - target) - pace
                  /\ last >= target => f[i + 1] >= target
                  /\ last <= target => f[i + 1] <= target]_vars

\* the forecast from 70.3 kg to 70 kg at the normal pace is 70, 70, 70, 70
C11_Witness ==
    /\ user # NoUser
    /\ user.pace = "normal"
    /\ rendered.forecast = <<7030, 7000, 7000, 7000, 7000>>

\* C12: the progress shown on the dashboard is 0 when the initial weight equals
\* the target, and otherwise the integer nearest to
\* |initial - current| / |initial - target| x 100, kept within 0..100.
C12_GoalProgress ==
    [][DashboardRendered =>
         LET initial == weightLogs'[1].weight
             current == weightLogs'[Len(weightLogs')].weight
             target == user'.targetWeight
             progress == rendered'.goal.progress
             changed == Abs(initial - current)
             total == Abs(initial - target)
         IN  IF initial = target
             THEN progress = 0
             ELSE /\ progress \in 0..100
                  /\ IF changed >= total
                     THEN progress = 100
                     ELSE 2 * Abs(100 * changed - progress * total) <= total]_vars

\* initial 90 kg, target 70 kg, current 80 kg: 50
C12_Witness ==
    /\ rendered.goal # NotRendered
    /\ rendered.goal.progress = 50
    /\ user.targetWeight = 7000
    /\ Len(weightLogs) = 2
    /\ weightLogs[1].weight = 9000
    /\ weightLogs[2].weight = 8000

\* C13: the dashboard reports the estimated weeks, the least whole number of
\* weeks of the weekly pace that covers |current - target|, exactly when the
\* current weight is more than 0.1 kg from the target on the side the goal
\* started from (above it for a goal to lose weight, below it for a goal to
\* gain), and reports the goal reached or to be maintained otherwise.
C13_TimeToGoal ==
    [][DashboardRendered =>
         LET initial == weightLogs'[1].weight
             current == weightLogs'[Len(weightLogs')].weight
             target == user'.targetWeight
             pace == IF user'.pace = "slow" THEN 25 ELSE 50
             diff == Abs(current - target)
             goal == rendered'.goal
             stillToGo == \/ initial > target /\ current > target + 10
                          \/ initial < target /\ current < target - 10
         IN  initial # target =>
               IF stillToGo
               THEN /\ goal.estimate = "weeks"
                    /\ goal.weeks * pace >= diff
                    /\ (goal.weeks - 1) * pace < diff
               ELSE goal.estimate \in {"maintain", "reached"}]_vars

\* C14: after a start on an absent or a corrupted blob, init() has run to its
\* end and the onboarding overlay is shown while there is no profile.
C14_AbsentOrCorruptBlobOnboards ==
    stored \in {NoBlob, CorruptBlob} => initDone /\ ~onboardingHidden

\* C15: every handler that changes the state object (onboarding, logging a
\* weight, stopping a session, switching tab) leaves the stored blob equal to
\* the serialized state.
C15_WriteThrough ==
    [][(stateVars' # stateVars /\ ~confirmReset) =>
         stored' = Serialize(user', weightLogs', dailyWalking', currentTab')]_vars

\* C16: a motion event without usable acceleration data, one that has no
\* accelerationIncludingGravity or one whose axes are null, changes nothing:
\* the step count, the distance, the previous magnitude, the in-progress flag
\* and the last-step time stay as they were.
C16_UnusableMotionEventIgnored ==
    [][\A a \in {NoAccel, NullAxes} :
         handleMotion(a) =>
           UNCHANGED <<totalSteps, totalDistance, lastAccel, isStepInProgress,
                       lastStepTime>>]_vars

\* the sum of the stored distances of the days of a set
RECURSIVE SumOver(_, _)
SumOver(dw, days) ==
    IF days = {}
    THEN 0
    ELSE LET d == CHOOSE x \in days : TRUE
         IN  dw[d].distance + SumOver(dw, days \ {d})

\* C17: the week and month totals written by renderWalk are the sums of the
\* stored distances of exactly the recorded days among today and the 6, or
\* the 29, days before it.
C17_RangeStats ==
    [][switchTab("walk") =>
         LET today == now \div 86400000
             window(n) == { d \in DOMAIN dailyWalking : today - n < d /\ d <= today }
         IN  /\ rendered'.stats.week = SumOver(dailyWalking, window(7))
             /\ rendered'.stats.month = SumOver(dailyWalking, window(30))]_vars

\* C18: a session becomes Running only on a platform that asks no motion
\* permission or by the resumption of startWalking on a request that resolved
\* with "granted"; a request that failed does not start one.
C18_RunningOnlyWhenPermitted ==
    [][(~Running /\ Running') =>
         (~needsPermission \/ permissionResponse("granted"))]_vars

\* C19: the steps a session counts for a sequence of samples are those the
\* first session after load counts for it.  In the first session the detector
\* starts from no previous magnitude, no step in progress and no last step, so
\* its first sample, of 5 m/s^2 or more, is counted as a step; hence in every
\* session a sample that arrives while the count is still 0 is the first one
\* and raises the count to 1 and the distance to one stride.
C19_SessionsCountAlike ==
    [][\A a \in Samples :
         (handleMotion(a) /\ totalSteps = 0) =>
            /\ totalSteps' = 1
            /\ totalDistance' = strideLength]_vars

\* C20: at most one periodic timer and at most one position watch are active,
\* and an active one is the one whose id walkInterval, or watchId, holds.
C20_OneTimerOneWatch ==
    /\ Cardinality(timers) <= 1
    /\ Cardinality(watches) <= 1
    /\ \A id \in timers : id = walkInterval
    /\ \A id \in watches : id = watchId

\* C21: a session all of whose motion samples have the same magnitude ends
\* with a step count of 0 and a distance of 0: where every sample of the run
\* is the same, every stop finds both at 0.
C21_RestCountsNoStep ==
    [][stopWalking => (totalSteps = 0 /\ totalDistance = 0)]_vars

====
